---- MODULE Spec2Model ----
(***************************************************************************)
(* A model of fc/reflect/reflect.hpp: the reflector<T> descriptors that    *)
(* the FC_REFLECT* macros generate, the visitor dispatch of visit(), and   *)
(* the enum conversions to_string / from_string.                           *)
(*                                                                         *)
(* Identifiers (type, member and enumerator tokens) are sequences of       *)
(* character codes; a C string is such a sequence followed by the          *)
(* terminating 0.  Types are numbered in the order in which their          *)
(* registrations appear in the translation unit.                           *)
(***************************************************************************)
EXTENDS Integers, Sequences, FiniteSets, TLC

\* ---------------------------------------------------------------- bounds
NumTypes == 3
MaxBases == 2
MaxMembers == 2
MaxFields == 2
MaxStrLen == 2
MaxVisits == 2

Types == 1..NumTypes

\* Member tokens every class declares: x, y.
MemberNames == {<<120>>, <<121>>}
\* Enumerator tokens an enum may declare: A, AB, a.
EnumeratorNames == {<<65>>, <<65, 66>>, <<97>>}
\* Characters of the strings handed to from_string: 'A', 'B', 'a'.
Alphabet == {65, 66, 97}
\* int64_t arguments handed to to_string.
IntInputs == {-1, 0, 1, 2, 5, 255, 256, 257}

SeqsUpTo(S, n) == UNION {[1..k -> S] : k \in 0..n}

\* The token naming type T in the source text: "T1", "T2", ...
TypeToken(T) == <<84, 48 + T>>

VARIABLES decl, reflector, phase, stack, root, visitor, log, inst,
          completed, started, limit, call, result

vars == <<decl, reflector, phase, stack, root, visitor, log, inst,
          completed, started, limit, call, result>>

\* ------------------------------------------------------- C++ declarations
ClassDecl(members) ==
    [kind |-> "class", members |-> members,
     enumerators |-> [n \in {} |-> 0], underlying |-> "none"]

\* Values an enumerator of the given fixed underlying type is declared with.
EnumValues(u) == IF u = "uint8_t" THEN {0, 1, 255} ELSE {-1, 0, 1}

EnumDecls ==
    UNION {{[kind |-> "enum", members |-> {}, enumerators |-> f, underlying |-> u] :
               f \in [EnumeratorNames -> EnumValues(u)]} :
           u \in {"uint8_t", "int8_t"}}

\* Mutant: the conversion ignores the sign of the underlying type.
ToEnum_Unsigned(u, i) == i % 256

\* ENUM(i): the conversion of an int64_t to the enum's underlying type.
ToEnum(u, i) ==
    IF u = "uint8_t" THEN i % 256 ELSE ((i + 128) % 256) - 128

\* ------------------------------------------------------------- C strings
\* BOOST_PP_STRINGIZE(elem): the token's characters as a C string literal.
BOOST_PP_STRINGIZE(elem) == elem \o <<0>>

CStrings == {BOOST_PP_STRINGIZE(s) : s \in SeqsUpTo(Alphabet, MaxStrLen)}

\* Mutant: the comparison ignores the case of letters.
Lower(c) == IF c >= 65 /\ c <= 90 THEN c + 32 ELSE c

RECURSIVE strcmp_NoCase(_, _)
strcmp_NoCase(a, b) ==
    IF Lower(a[1]) # Lower(b[1]) THEN Lower(a[1]) - Lower(b[1])
    ELSE IF a[1] = 0 THEN 0
    ELSE strcmp_NoCase(Tail(a), Tail(b))

RECURSIVE strcmp(_, _)
strcmp(a, b) ==
    IF a[1] # b[1] THEN a[1] - b[1]
    ELSE IF a[1] = 0 THEN 0
    ELSE strcmp(Tail(a), Tail(b))

\* ---------------------------------------------------------- descriptors
BuildFailure == "build failure"

\* Mutant: the unspecialized template has member counts of zero.
reflector_primary_Counts(T) ==
    [form |-> "primary",
     defines |-> {"type", "is_defined", "is_enum", "local_member_count",
                  "total_member_count"},
     type |-> T, is_defined |-> FALSE, is_enum |-> FALSE,
     local_member_count |-> 0, total_member_count |-> 0,
     inherits |-> <<>>, fields |-> <<>>, members |-> <<>>,
     visit |-> <<>>, to_string |-> <<>>, from_string |-> <<>>,
     underlying |-> "none", name |-> <<>>]

\* The unspecialized template: what reflector<T> is for an unregistered T.
reflector_primary(T) ==
    [form |-> "primary", defines |-> {"type", "is_defined", "is_enum"},
     type |-> T, is_defined |-> FALSE, is_enum |-> FALSE,
     local_member_count |-> 0, total_member_count |-> 0,
     inherits |-> <<>>, fields |-> <<>>, members |-> <<>>,
     visit |-> <<>>, to_string |-> <<>>, from_string |-> <<>>,
     underlying |-> "none", name |-> <<>>]

FC_REFLECT_VISIT_BASE(base) ==
    [op |-> "visit_base", base |-> base, cls |-> 0, member |-> <<>>,
     name |-> <<>>, value |-> 0]

FC_REFLECT_VISIT_MEMBER(type, elem) ==
    [op |-> "visit_member", base |-> 0, cls |-> type, member |-> elem,
     name |-> BOOST_PP_STRINGIZE(elem), value |-> 0]

\* Mutant: the sum takes each base's local_member_count.
RECURSIVE FC_REFLECT_BASE_MEMBER_COUNT_Local(_, _, _)
FC_REFLECT_BASE_MEMBER_COUNT_Local(reg, acc, INHERITS) ==
    IF INHERITS = <<>> THEN acc
    ELSE FC_REFLECT_BASE_MEMBER_COUNT_Local(
             reg, acc + reg[Head(INHERITS)].local_member_count, Tail(INHERITS))

\* total_member_count's initializer: local_member_count followed by
\* "+ reflector<elem>::total_member_count" for each elem of INHERITS.
RECURSIVE FC_REFLECT_BASE_MEMBER_COUNT(_, _, _)
FC_REFLECT_BASE_MEMBER_COUNT(reg, acc, INHERITS) ==
    IF INHERITS = <<>> THEN acc
    ELSE FC_REFLECT_BASE_MEMBER_COUNT(
             reg, acc + reg[Head(INHERITS)].total_member_count, Tail(INHERITS))

\* Mutant: the own members are visited before the bases.
FC_REFLECT_DERIVED_IMPL_INLINE_MembersFirst(TYPE, INHERITS, MEMBERS) ==
    [i \in 1..Len(MEMBERS) |-> FC_REFLECT_VISIT_MEMBER(TYPE, MEMBERS[i])]
    \o [i \in 1..Len(INHERITS) |-> FC_REFLECT_VISIT_BASE(INHERITS[i])]

\* Mutant: a base listed again is not visited again.
FC_REFLECT_DERIVED_IMPL_INLINE_Dedup(TYPE, INHERITS, MEMBERS) ==
    SelectSeq([i \in 1..Len(INHERITS) |->
                  IF \E j \in 1..(i - 1) : INHERITS[j] = INHERITS[i]
                  THEN FC_REFLECT_VISIT_MEMBER(0, <<>>)
                  ELSE FC_REFLECT_VISIT_BASE(INHERITS[i])],
              LAMBDA st : st.op = "visit_base")
    \o [i \in 1..Len(MEMBERS) |-> FC_REFLECT_VISIT_MEMBER(TYPE, MEMBERS[i])]

\* The body of visit(): one statement per base, then one per member.
FC_REFLECT_DERIVED_IMPL_INLINE(TYPE, INHERITS, MEMBERS) ==
    [i \in 1..Len(INHERITS) |-> FC_REFLECT_VISIT_BASE(INHERITS[i])]
    \o [i \in 1..Len(MEMBERS) |-> FC_REFLECT_VISIT_MEMBER(TYPE, MEMBERS[i])]

reflector_derived(reg, TYPE, INHERITS, MEMBERS) ==
    [form |-> "derived",
     defines |-> {"type", "is_defined", "is_enum", "local_member_count",
                  "total_member_count", "visit"},
     type |-> TYPE, is_defined |-> TRUE, is_enum |-> FALSE,
     local_member_count |-> Len(MEMBERS),
     total_member_count |->
         FC_REFLECT_BASE_MEMBER_COUNT(reg, Len(MEMBERS), INHERITS),
     inherits |-> INHERITS, fields |-> <<>>, members |-> MEMBERS,
     visit |-> FC_REFLECT_DERIVED_IMPL_INLINE(TYPE, INHERITS, MEMBERS),
     to_string |-> <<>>, from_string |-> <<>>,
     underlying |-> "none", name |-> BOOST_PP_STRINGIZE(TypeToken(TYPE))]

\* Mutant: the visitor is handed the enumerator's rank among the declared
\* values instead of its value.
FC_REFLECT_VISIT_ENUM_Renumbered(enum_type, elem) ==
    [op |-> "visit_enum", base |-> 0, cls |-> 0, member |-> elem,
     name |-> BOOST_PP_STRINGIZE(elem),
     value |-> Cardinality({n \in DOMAIN enum_type.enumerators :
                   enum_type.enumerators[n] < enum_type.enumerators[elem]})]

\* v.operator()<enum_type::elem>( "elem" ): the enumerator's own value.
FC_REFLECT_VISIT_ENUM(enum_type, elem) ==
    [op |-> "visit_enum", base |-> 0, cls |-> 0, member |-> elem,
     name |-> BOOST_PP_STRINGIZE(elem), value |-> enum_type.enumerators[elem]]

\* case enum_type::elem: return "elem";
FC_REFLECT_ENUM_TO_STRING(enum_type, elem) ==
    [label |-> enum_type.enumerators[elem], ret |-> BOOST_PP_STRINGIZE(elem)]

\* if( strcmp( s, "elem" ) == 0 ) return enum_type::elem;
FC_REFLECT_ENUM_FROM_STRING(enum_type, elem) ==
    [key |-> BOOST_PP_STRINGIZE(elem), ret |-> enum_type.enumerators[elem]]

reflector_enum(enum_type, ENUM, FIELDS) ==
    [form |-> "enum",
     defines |-> {"is_defined", "is_enum", "visit", "to_string", "from_string"},
     type |-> ENUM, is_defined |-> TRUE, is_enum |-> TRUE,
     local_member_count |-> 0, total_member_count |-> 0,
     inherits |-> <<>>, fields |-> FIELDS, members |-> <<>>,
     visit |-> [i \in 1..Len(FIELDS) |-> FC_REFLECT_VISIT_ENUM(enum_type, FIELDS[i])],
     to_string |->
         [i \in 1..Len(FIELDS) |-> FC_REFLECT_ENUM_TO_STRING(enum_type, FIELDS[i])],
     from_string |->
         [i \in 1..Len(FIELDS) |-> FC_REFLECT_ENUM_FROM_STRING(enum_type, FIELDS[i])],
     underlying |-> enum_type.underlying,
     name |-> BOOST_PP_STRINGIZE(TypeToken(ENUM))]

\* FC_REFLECT_FWD(TYPE): MEMBERS and INHERITS are not parameters of the macro;
\* they are whatever these identifiers expand to where the macro is used.
\* is_enum is not among the members, and visit is declared without a body.
reflector_fwd(reg, TYPE, INHERITS, MEMBERS) ==
    [form |-> "fwd",
     defines |-> {"type", "is_defined", "local_member_count",
                  "total_member_count", "visit"},
     type |-> TYPE, is_defined |-> TRUE, is_enum |-> FALSE,
     local_member_count |-> Len(MEMBERS),
     total_member_count |->
         FC_REFLECT_BASE_MEMBER_COUNT(reg, Len(MEMBERS), INHERITS),
     inherits |-> INHERITS, fields |-> <<>>, members |-> MEMBERS,
     visit |-> <<>>, to_string |-> <<>>, from_string |-> <<>>,
     underlying |-> "none", name |-> BOOST_PP_STRINGIZE(TypeToken(TYPE))]

\* ------------------------------------------------------- enum conversions
\* The call made last: its operation, the type it is made on, its argument.
NoCall == [op |-> "none", type |-> 0, i |-> 0, s |-> <<>>, q |-> ""]

\* What a call leaves its caller with: a returned string or integer, a raised
\* failure with what it carries, or the outcome of naming a descriptor member.
NoResult == [kind |-> "none", flag |-> FALSE, int |-> 0, str |-> <<>>, type |-> <<>>]

\* void throw_bad_enum_cast( int64_t i, const char* e );
throw_bad_enum_cast_i(i, e) ==
    [NoResult EXCEPT !.kind = "bad_enum_cast", !.int = i, !.type = e]

\* void throw_bad_enum_cast( const char* k, const char* e );
throw_bad_enum_cast_k(k, e) ==
    [NoResult EXCEPT !.kind = "bad_enum_cast", !.str = k, !.type = e]

ReturnedName(n) == [NoResult EXCEPT !.kind = "return", !.str = n]
ReturnedEnum(v) == [NoResult EXCEPT !.kind = "return", !.int = v]

Min(S) == CHOOSE m \in S : \A n \in S : m <= n

\* switch( ENUM(i) ) { case ...: return "..."; default: throw } return nullptr;
to_string(r, i) ==
    LET e == ToEnum(r.underlying, i)
        hit == {k \in 1..Len(r.to_string) : r.to_string[k].label = e}
    IN  IF hit # {} THEN ReturnedName(r.to_string[Min(hit)].ret)
        ELSE throw_bad_enum_cast_i(i, r.name)

\* if( strcmp(s, "..") == 0 ) return ..; ... throw; return ENUM();
from_string(r, s) ==
    LET hit == {k \in 1..Len(r.from_string) : strcmp(s, r.from_string[k].key) = 0}
    IN  IF hit # {} THEN ReturnedEnum(r.from_string[Min(hit)].ret)
        ELSE throw_bad_enum_cast_k(s, r.name)

\* The types registered so far; registrations appear in type order.
Registered == {T \in Types : reflector[T].form # "primary"}

\* ------------------------------------------------------------ registration
\* FC_REFLECT_DERIVED(TYPE, INHERITS, MEMBERS); FC_REFLECT is the case of an
\* empty INHERITS.  The specialization builds when every base's descriptor
\* has total_member_count and visit, and every elem is a member of TYPE.
FC_REFLECT_DERIVED(TYPE, INHERITS, MEMBERS) ==
    /\ phase = "compile"
    /\ TYPE = Cardinality(Registered) + 1
    /\ \A i \in 1..Len(INHERITS) :
           {"total_member_count", "visit"} \subseteq reflector[INHERITS[i]].defines
    /\ \A i \in 1..Len(MEMBERS) : MEMBERS[i] \in decl[TYPE].members
    /\ reflector' = [reflector EXCEPT
                        ![TYPE] = reflector_derived(reflector, TYPE, INHERITS, MEMBERS)]
    /\ UNCHANGED <<decl, phase, stack, root, visitor, log, inst, completed,
                   started, limit, call, result>>

\* FC_REFLECT_ENUM(ENUM, FIELDS).  The specialization builds when ENUM is an
\* enumeration, every elem is one of its enumerators, and no two case labels
\* of to_string's switch have the same value.
FC_REFLECT_ENUM(ENUM, FIELDS) ==
    /\ phase = "compile"
    /\ ENUM = Cardinality(Registered) + 1
    /\ decl[ENUM].kind = "enum"
    /\ \A i \in 1..Len(FIELDS) : FIELDS[i] \in DOMAIN decl[ENUM].enumerators
    /\ \A i, j \in 1..Len(FIELDS) :
           i # j => decl[ENUM].enumerators[FIELDS[i]] # decl[ENUM].enumerators[FIELDS[j]]
    /\ reflector' = [reflector EXCEPT
                        ![ENUM] = reflector_enum(decl[ENUM], ENUM, FIELDS)]
    /\ UNCHANGED <<decl, phase, stack, root, visitor, log, inst, completed,
                   started, limit, call, result>>

\* FC_REFLECT_FWD(TYPE), used where MEMBERS and INHERITS expand to sequences.
FC_REFLECT_FWD(TYPE, INHERITS, MEMBERS) ==
    /\ phase = "compile"
    /\ TYPE = Cardinality(Registered) + 1
    /\ decl[TYPE].kind = "class"
    /\ \A i \in 1..Len(INHERITS) :
           "total_member_count" \in reflector[INHERITS[i]].defines
    /\ reflector' = [reflector EXCEPT
                        ![TYPE] = reflector_fwd(reflector, TYPE, INHERITS, MEMBERS)]
    /\ UNCHANGED <<decl, phase, stack, root, visitor, log, inst, completed,
                   started, limit, call, result>>

\* The translation unit is complete: the specializations are fixed and the
\* program runs.
Run ==
    /\ phase = "compile"
    /\ phase' = "run"
    /\ UNCHANGED <<decl, reflector, stack, root, visitor, log, inst,
                   completed, started, limit, call, result>>

\* ---------------------------------------------------------------- dispatch
Slots == Types \X MemberNames

Top == stack[Len(stack)]
Body == reflector[Top.type].visit
Stmt == Body[Top.pc]
Advance(s) == [s EXCEPT ![Len(s)] = [@ EXCEPT !.pc = @ + 1]]

\* reflector<T>::visit(v) is called with a visitor v.
StartVisit(T, v) ==
    /\ phase = "run"
    /\ stack = <<>>
    /\ started < limit
    /\ reflector[T].form \in {"derived", "enum"}
    /\ stack' = <<[type |-> T, pc |-> 1]>>
    /\ root' = T
    /\ visitor' = v
    /\ log' = <<>>
    /\ started' = started + 1
    /\ UNCHANGED <<decl, reflector, phase, inst, completed, limit, call, result>>

\* fc::reflector<base>::visit( visitor );
VisitBase ==
    /\ stack # <<>>
    /\ Top.pc <= Len(Body)
    /\ Stmt.op = "visit_base"
    /\ stack' = Append(Advance(stack), [type |-> Stmt.base, pc |-> 1])
    /\ UNCHANGED <<decl, reflector, phase, root, visitor, log, inst,
                   completed, started, limit, call, result>>

\* Mutant: the dispatch itself stores into the member it visits.
VisitMember_Writes ==
    /\ stack # <<>>
    /\ Top.pc <= Len(Body)
    /\ Stmt.op = "visit_member"
    /\ log' = Append(log, [name |-> Stmt.name, cls |-> Stmt.cls,
                           member |-> Stmt.member])
    /\ inst' = [inst EXCEPT ![<<Stmt.cls, Stmt.member>>] = 1]
    /\ stack' = Advance(stack)
    /\ UNCHANGED <<decl, reflector, phase, root, visitor, completed,
                   started, limit, call, result>>

\* visitor.operator()<member_type,type,&type::elem>( "elem" ): the visitor
\* receives the name and the accessor; a writing visitor stores through the
\* accessor into the instance it holds.
VisitMember ==
    /\ stack # <<>>
    /\ Top.pc <= Len(Body)
    /\ Stmt.op = "visit_member"
    /\ log' = Append(log, [name |-> Stmt.name, cls |-> Stmt.cls,
                           member |-> Stmt.member])
    /\ inst' = IF visitor = "writer"
               THEN [inst EXCEPT ![<<Stmt.cls, Stmt.member>>] = 1]
               ELSE inst
    /\ stack' = Advance(stack)
    /\ UNCHANGED <<decl, reflector, phase, root, visitor, completed,
                   started, limit, call, result>>

\* The end of a visit() body: control returns to the caller.
Return ==
    /\ stack # <<>>
    /\ Top.pc > Len(Body)
    /\ stack' = SubSeq(stack, 1, Len(stack) - 1)
    /\ completed' = IF Len(stack) = 1
                    THEN [completed EXCEPT ![root] = @ \cup {log}]
                    ELSE completed
    /\ UNCHANGED <<decl, reflector, phase, root, visitor, log, inst,
                   started, limit, call, result>>

\* v.operator()<enum_type::elem>( "elem" );
VisitEnum ==
    /\ stack # <<>>
    /\ Top.pc <= Len(Body)
    /\ Stmt.op = "visit_enum"
    /\ log' = Append(log, [name |-> Stmt.name, value |-> Stmt.value])
    /\ stack' = Advance(stack)
    /\ UNCHANGED <<decl, reflector, phase, root, visitor, inst, completed,
                   started, limit, call, result>>

\* ------------------------------------------------------------ conversions
\* reflector<E>::to_string(i) is called.
CallToString(E, i) ==
    /\ phase = "run"
    /\ stack = <<>>
    /\ reflector[E].form = "enum"
    /\ call' = [NoCall EXCEPT !.op = "to_string", !.type = E, !.i = i]
    /\ result' = to_string(reflector[E], i)
    /\ UNCHANGED <<decl, reflector, phase, stack, root, visitor, log, inst,
                   completed, started, limit>>

\* reflector<E>::from_string(s) is called.
CallFromString(E, s) ==
    /\ phase = "run"
    /\ stack = <<>>
    /\ reflector[E].form = "enum"
    /\ call' = [NoCall EXCEPT !.op = "from_string", !.type = E, !.s = s]
    /\ result' = from_string(reflector[E], s)
    /\ UNCHANGED <<decl, reflector, phase, stack, root, visitor, log, inst,
                   completed, started, limit>>

\* ----------------------------------------------------------------- queries
QueryNames == {"type", "is_defined", "is_enum", "local_member_count",
               "total_member_count", "visit", "to_string", "from_string"}

\* reflector<T>::q named in generic code: the member's value, or a build
\* failure when the descriptor of T has no such member.
Lookup(r, q) ==
    IF q \notin r.defines THEN [NoResult EXCEPT !.kind = BuildFailure]
    ELSE IF q \in {"is_defined", "is_enum"}
         THEN [NoResult EXCEPT !.kind = "value", !.flag = r[q]]
    ELSE IF q \in {"type", "local_member_count", "total_member_count"}
         THEN [NoResult EXCEPT !.kind = "value", !.int = r[q]]
    ELSE [NoResult EXCEPT !.kind = "value"]

Query(T, q) ==
    /\ phase = "run"
    /\ call' = [NoCall EXCEPT !.op = "query", !.type = T, !.q = q]
    /\ result' = Lookup(reflector[T], q)
    /\ UNCHANGED <<decl, reflector, phase, stack, root, visitor, log, inst,
                   completed, started, limit>>

\* ---------------------------------------------------------- specifications
InitCommon ==
    /\ reflector = [T \in Types |-> reflector_primary(T)]
    /\ phase = "compile"
    /\ stack = <<>>
    /\ root = 0
    /\ visitor = "none"
    /\ log = <<>>
    /\ inst = [s \in Slots |-> 0]
    /\ completed = [T \in Types |-> {}]
    /\ started = 0
    /\ call = NoCall
    /\ result = NoResult

RegisterStruct ==
    \E T \in Types, INHERITS \in SeqsUpTo(Types, MaxBases) :
       \E MEMBERS \in SeqsUpTo(decl[T].members, MaxMembers) :
          FC_REFLECT_DERIVED(T, INHERITS, MEMBERS)

RegisterEnum ==
    \E T \in Types, FIELDS \in SeqsUpTo(EnumeratorNames, MaxFields) :
       FC_REFLECT_ENUM(T, FIELDS)

RegisterFwd ==
    \E T \in Types, INHERITS \in SeqsUpTo(Types, MaxBases) :
       \E MEMBERS \in SeqsUpTo(decl[T].members, MaxMembers) :
          FC_REFLECT_FWD(T, INHERITS, MEMBERS)

Visit == \E T \in Types, v \in {"reader", "writer"} : StartVisit(T, v)

\* Struct-like types: registration and one member traversal.
InitVisit ==
    /\ decl = [T \in Types |-> ClassDecl(MemberNames)]
    /\ limit = 1
    /\ InitCommon

NextVisit ==
    \/ RegisterStruct
    \/ Run
    \/ Visit
    \/ VisitBase
    \/ VisitMember
    \/ Return

SpecVisit == InitVisit /\ [][NextVisit]_vars

\* Struct-like types with one declared member: repeated traversals.
InitFrame ==
    /\ decl = [T \in Types |-> ClassDecl({<<120>>})]
    /\ limit = MaxVisits
    /\ InitCommon

SpecFrame == InitFrame /\ [][NextVisit]_vars

\* One enumeration: registration, traversal and the conversions.
InitEnum ==
    /\ decl \in {[T \in Types |-> IF T = 1 THEN d ELSE ClassDecl(MemberNames)] :
                    d \in EnumDecls}
    /\ limit = 1
    /\ InitCommon

NextEnum ==
    \/ RegisterEnum
    \/ Run
    \/ Visit
    \/ VisitEnum
    \/ Return
    \/ \E E \in Types, i \in IntInputs : CallToString(E, i)
    \/ \E E \in Types, s \in CStrings : CallFromString(E, s)

SpecEnum == InitEnum /\ [][NextEnum]_vars

\* Every registration form, and the descriptor queries of generic code: an
\* enum, a class with one member and classes without members.
QueryEnum ==
    [kind |-> "enum", members |-> {}, underlying |-> "uint8_t",
     enumerators |-> [n \in EnumeratorNames |-> Len(n)]]

InitQuery ==
    /\ decl = [T \in Types |->
                  IF T = 1 THEN QueryEnum
                  ELSE IF T = 2 THEN ClassDecl({<<120>>}) ELSE ClassDecl({})]
    /\ limit = 0
    /\ InitCommon

NextQuery ==
    \/ RegisterStruct
    \/ RegisterEnum
    \/ RegisterFwd
    \/ Run
    \/ \E T \in Types, q \in QueryNames : Query(T, q)

SpecQuery == InitQuery /\ [][NextQuery]_vars

\* ------------------------------------------------------ traversal claims
\* A traversal of root has run to completion; log holds its invocations.
Done == phase = "run" /\ stack = <<>> /\ root # 0

RECURSIVE Flatten(_)
Flatten(ss) == IF ss = <<>> THEN <<>> ELSE Head(ss) \o Flatten(Tail(ss))

RECURSIVE SumSeq(_)
SumSeq(ns) == IF ns = <<>> THEN 0 ELSE Head(ns) + SumSeq(Tail(ns))

IsPrefix(a, b) == Len(a) <= Len(b) /\ a = SubSeq(b, 1, Len(a))

Occ(seq, x) == Cardinality({i \in 1..Len(seq) : seq[i] = x})

\* The invocations the declared lists of T call for: those of each base in
\* base-list order, then one per own member with its name and accessor.
RECURSIVE ExpectedCalls(_)
ExpectedCalls(T) ==
    LET r == reflector[T]
    IN  Flatten([i \in 1..Len(r.inherits) |-> ExpectedCalls(r.inherits[i])])
        \o [i \in 1..Len(r.members) |->
               [name |-> r.members[i] \o <<0>>, cls |-> T, member |-> r.members[i]]]

\* C1: a traversal of a registered struct-like type invokes the visitor for
\* all of B1's members (recursively), ..., all of Bn's, and only then once per
\* own member in declaration order, each time with that member's name and the
\* accessor bound to that member; while it runs, the invocations made so far
\* are an initial part of that sequence.
C1_VisitOrder ==
    (root # 0 /\ reflector[root].form = "derived") =>
        /\ IsPrefix(log, ExpectedCalls(root))
        /\ stack = <<>> => log = ExpectedCalls(root)

C1_Witness ==
    /\ Done
    /\ reflector[root].form = "derived"
    /\ Len(reflector[root].inherits) = 2
    /\ reflector[root].inherits[1] > reflector[root].inherits[2]
    /\ \A i \in 1..2 : reflector[reflector[root].inherits[i]].total_member_count > 0
    /\ Len(reflector[root].members) = 2
    /\ reflector[root].members[1] # reflector[root].members[2]
    /\ Len(log) >= 4

\* The members a traversal of T meets, counted level by level.
RECURSIVE FlatCount(_)
FlatCount(T) ==
    Len(reflector[T].members)
    + SumSeq([i \in 1..Len(reflector[T].inherits) |->
                 FlatCount(reflector[T].inherits[i])])

\* C2: total_member_count(T) is the number k of own members plus the sum of
\* the bases' total_member_count, through every inheritance level, and a
\* completed traversal of T has invoked the visitor exactly that many times.
C2_TotalMemberCount ==
    /\ \A T \in Types : reflector[T].form = "derived" =>
          /\ reflector[T].local_member_count = Len(reflector[T].members)
          /\ reflector[T].total_member_count =
                 Len(reflector[T].members)
                 + SumSeq([i \in 1..Len(reflector[T].inherits) |->
                              reflector[reflector[T].inherits[i]].total_member_count])
          /\ reflector[T].total_member_count = FlatCount(T)
    /\ (Done /\ reflector[root].form = "derived") =>
          Len(log) = reflector[root].total_member_count

C2_Witness ==
    /\ Done
    /\ root = 3
    /\ reflector[3].inherits = <<2>>
    /\ reflector[2].inherits = <<1>>
    /\ \A T \in 1..3 : Len(reflector[T].members) >= 1
    /\ Len(log) = reflector[3].total_member_count
    /\ Len(log) > Len(reflector[3].members) + Len(reflector[2].members)

\* The number of base-list paths from T to B (one from T to itself).
RECURSIVE NumPaths(_, _)
NumPaths(T, B) ==
    IF T = B THEN 1
    ELSE SumSeq([i \in 1..Len(reflector[T].inherits) |->
                    NumPaths(reflector[T].inherits[i], B)])

\* The invocations in log made with the accessor of member m of B.
Visited(B, m) ==
    Cardinality({i \in 1..Len(log) : log[i].cls = B /\ log[i].member = m})

\* Every listed member of every type reached from root was visited once per
\* listing.
EachOnce ==
    \A B \in Types : NumPaths(root, B) > 0 =>
        \A m \in MemberNames : Visited(B, m) = Occ(reflector[B].members, m)

PathCounts ==
    /\ \A B \in Types, m \in MemberNames :
          Visited(B, m) = NumPaths(root, B) * Occ(reflector[B].members, m)
    /\ reflector[root].total_member_count =
          SumSeq([B \in 1..NumTypes |->
                     NumPaths(root, B) * Len(reflector[B].members)])
    /\ Len(log) = reflector[root].total_member_count

\* C10 (as stated): after a traversal of T every own member of a type B is
\* visited once per base-list path from T to B, total_member_count(T) counts
\* it as often, and every member is visited exactly once iff no base is
\* reachable by more than one path.
C10_AsStated ==
    (Done /\ reflector[root].form = "derived") =>
        /\ PathCounts
        /\ EachOnce <=> \A B \in Types \ {root} : NumPaths(root, B) <= 1

\* C10 (amended): as above, but every member is visited exactly once iff no
\* base that lists at least one own member is reachable by more than one path.
C10_RepeatedBases ==
    (Done /\ reflector[root].form = "derived") =>
        /\ PathCounts
        /\ EachOnce <=>
               \A B \in Types \ {root} :
                   Len(reflector[B].members) > 0 => NumPaths(root, B) <= 1

C10_Witness ==
    /\ Done
    /\ root = 3
    /\ reflector[3].inherits = <<1, 2>>
    /\ reflector[2].inherits = <<1>>
    /\ Len(reflector[1].members) = 2
    /\ NumPaths(3, 1) = 2
    /\ \A m \in MemberNames : Visited(1, m) = 2 * Occ(reflector[1].members, m)
    /\ ~EachOnce

\* C9: no step changes the descriptor of a registered type; a dispatch step
\* changes the instance only by the store a writing visitor makes through the
\* accessor it was handed, so a traversal with a visitor that does not write
\* leaves every instance as it was; and all completed traversals of one type
\* made the same sequence of invocations.
C9_DispatchFrame ==
    [][ /\ \A T \in Types : reflector[T].form # "primary" => reflector'[T] = reflector[T]
        /\ phase = "run" => reflector' = reflector
        /\ visitor # "writer" => inst' = inst
        /\ \A s \in Slots : inst'[s] # inst[s] =>
               /\ stack # <<>> /\ Top.pc <= Len(Body) /\ Stmt.op = "visit_member"
               /\ s = <<Stmt.cls, Stmt.member>>
        /\ \A T \in Types : Cardinality(completed'[T]) <= 1 ]_vars

C9_Witness ==
    /\ Done
    /\ started = 2
    /\ visitor = "reader"
    /\ inst = [s \in Slots |-> 0]
    /\ \A T \in Types \ {root} : completed[T] = {}
    /\ completed[root] = {log}
    /\ Len(reflector[root].inherits) >= 1
    /\ Len(log) >= 2

\* ----------------------------------------------------------- enum claims
\* The declared value of enumerator n of enum E.
ValueOf(E, n) == decl[E].enumerators[n]

Distinct(seq) == \A i, j \in 1..Len(seq) : i # j => seq[i] # seq[j]

\* The registered enumerators of E have pairwise distinct names and values.
NoDuplicates(E) ==
    /\ Distinct(reflector[E].fields)
    /\ Distinct([i \in 1..Len(reflector[E].fields) |->
                    ValueOf(E, reflector[E].fields[i])])

\* C3: for a registered enum whose enumerators have pairwise distinct names
\* and values, to_string(vi) is ni and from_string(ni) is vi, so each
\* conversion undoes the other.
C3_RoundTrip ==
    \A E \in Types : (reflector[E].form = "enum" /\ NoDuplicates(E)) =>
        LET r == reflector[E]
        IN  /\ \A i \in 1..Len(r.fields) :
                  LET n == r.fields[i] \o <<0>>
                      v == ValueOf(E, r.fields[i])
                  IN  /\ to_string(r, v) = ReturnedName(n)
                      /\ from_string(r, n) = ReturnedEnum(v)
                      /\ from_string(r, to_string(r, v).str) = ReturnedEnum(v)
                      /\ to_string(r, from_string(r, n).int) = ReturnedName(n)
            /\ (call.op = "to_string" /\ call.type = E) =>
                   \A i \in 1..Len(r.fields) :
                       call.i = ValueOf(E, r.fields[i]) =>
                           result = ReturnedName(r.fields[i] \o <<0>>)
            /\ (call.op = "from_string" /\ call.type = E) =>
                   \A i \in 1..Len(r.fields) :
                       call.s = r.fields[i] \o <<0>> =>
                           result = ReturnedEnum(ValueOf(E, r.fields[i]))

C3_Witness ==
    /\ call.op = "to_string"
    /\ reflector[call.type].form = "enum"
    /\ Len(reflector[call.type].fields) = 2
    /\ call.i = ValueOf(call.type, reflector[call.type].fields[2])
    /\ call.i < 0
    /\ result = ReturnedName(reflector[call.type].fields[2] \o <<0>>)

\* The values of the registered enumerators of E.
RegisteredValues(E) ==
    {ValueOf(E, reflector[E].fields[i]) : i \in 1..Len(reflector[E].fields)}

\* The names of the registered enumerators of E, as C strings.
RegisteredNames(E) ==
    {reflector[E].fields[i] \o <<0>> : i \in 1..Len(reflector[E].fields)}

\* C4: to_string(i) for an integer i equal to no registered enumerator value,
\* integers outside the range of the underlying type included, returns no
\* name: it raises bad-enum-cast carrying i and the registered type name.
C4_ToStringMiss ==
    (call.op = "to_string" /\ call.i \notin RegisteredValues(call.type)) =>
        /\ result.kind = "bad_enum_cast"
        /\ result.int = call.i
        /\ result.type = TypeToken(call.type) \o <<0>>

\* C5: from_string(s) for a string s that is not exactly a registered
\* enumerator name raises bad-enum-cast carrying s and the registered type
\* name; no enumerator value is returned.
C5_FromStringMiss ==
    (call.op = "from_string" /\ call.s \notin RegisteredNames(call.type)) =>
        /\ result.kind = "bad_enum_cast"
        /\ result.str = call.s
        /\ result.type = TypeToken(call.type) \o <<0>>

C5_Witness ==
    /\ call.op = "from_string"
    /\ call.s = <<97, 0>>
    /\ reflector[call.type].fields = <<(<<65, 66>>), (<<65>>)>>
    /\ result.kind = "bad_enum_cast"
    /\ result.str = <<97, 0>>

\* C8: a traversal of a registered enum invokes the visitor once per declared
\* enumerator, in declared order, the i-th time with the name of the i-th
\* enumerator and that enumerator's own value.
C8_VisitEnum ==
    (root # 0 /\ reflector[root].form = "enum") =>
        LET f == reflector[root].fields
            expected == [i \in 1..Len(f) |->
                            [name |-> f[i] \o <<0>>, value |-> ValueOf(root, f[i])]]
        IN  /\ IsPrefix(log, expected)
            /\ stack = <<>> => log = expected

C8_Witness ==
    /\ Done
    /\ reflector[root].form = "enum"
    /\ Len(log) = 2
    /\ log[1].value = 255
    /\ log[2].value = 0
    /\ log[1].name = <<97, 0>>

\* ---------------------------------------------------- descriptor claims
\* C6 (as stated): the is_reflectable query on an unregistered type is a
\* build failure.
C6_AsStated ==
    (call.op = "query" /\ call.q = "is_defined"
        /\ reflector[call.type].form = "primary") =>
        result.kind = BuildFailure

\* C6 (amended): on an unregistered type the is_reflectable query builds and
\* yields false, while the member-count and visit queries are build failures.
C6_Unregistered ==
    (call.op = "query" /\ reflector[call.type].form = "primary") =>
        /\ call.q = "is_defined" =>
               result.kind = "value" /\ result.flag = FALSE
        /\ call.q \in {"local_member_count", "total_member_count", "visit"} =>
               result.kind = BuildFailure

C6_Witness ==
    /\ call.op = "query"
    /\ call.q = "total_member_count"
    /\ reflector[call.type].form = "primary"
    /\ reflector[1].form # "primary"
    /\ result.kind = BuildFailure

\* C7: for every type whose descriptor says it is reflectable, whichever
\* registration produced it, is_enum is defined and is true exactly when the
\* type was registered as an enumeration.
C7_IsEnum ==
    (call.op = "query" /\ call.q = "is_enum"
        /\ reflector[call.type].is_defined) =>
        /\ result.kind = "value"
        /\ result.flag = (reflector[call.type].form = "enum")

====
